---- MODULE Spec2Model ----
\* Model of robothlon.py: the serial command transport (CommandTransport),
\* the device poller (DeviceManager) and the objects they share.
EXTENDS Integers, Sequences, FiniteSets, TLC

\* ---------------------------------------------------------------- bounds
MaxCmds == 2      \* commands a test client of the transport submits
MaxQueue == 4     \* longest command queue explored
MaxTx == 6        \* most unreported bytes pending when a request is written
MaxRx == 1        \* most lines buffered by the port
CmdLen == 3       \* byte length of a test client's request line
Chunk == 2        \* size of a partial write the port reports
MaxCalls == 3     \* calls of enable, disable and clear of the poller
Step == 500       \* milliseconds by which the clock advances in one step
MaxTime == 2500   \* milliseconds of stopwatch and running time explored
TimeStep == 5     \* most time units that pass in one step of the clock
GameDuration == 1 \* GameDuration of the settings file, in seconds
MaxGameCalls == 6 \* requests made to the GameManager

\* ------------------------------------------------------ program constants
FIRST_DEVICE == 1
LAST_DEVICE == 31
COMMAND_DELAY == 10
PingLen == 6      \* len(bytes("Ping\r\n", 'ascii'))

NoDevice == 0     \* stands for None in _first_uploaded

VARIABLES
    \* CommandTransport
    transport_state,   \* _state: "disabled" | "idle" | "work"
    command_queue,     \* _command_queue: sequence of [request, callback]
    timer_active,      \* _timer (single shot) is running
    unsent_bytes,      \* _unsent_bytes
    read_complete,     \* _read_complete
    write_complete,    \* _write_complete
    \* QSerialPort
    port_open,         \* isOpen()
    tx_pending,        \* bytes written, bytesWritten not yet signalled for them
    rx,                \* complete lines in the read buffer
    wire,              \* the request most recently written to the port
    \* DeviceManager
    enabled,           \* _enabled
    current_device,    \* _current_device
    devices,           \* _devices: address -> Device
    upload,            \* _upload
    first_uploaded,    \* _first_uploaded (NoDevice for None)
    settings,          \* the content of the settings file
    \* GameManager
    game_state,        \* _state
    tick_active,       \* _timer.isActive()
    sw_valid,          \* _elapsed_timer.isValid()
    sw,                \* _elapsed_timer.elapsed(), in time units
    prev_elapsed_time, \* _prev_elapsed_time, in time units
    \* outcome of the last handler
    err,               \* "none", or the exception that left a handler
    \* observation (history) variables
    submitted,         \* number of requests the test client has submitted
    in_flight,         \* requests written and neither finalized nor dropped
    premature,         \* requests popped without both completions recorded
    clear_called,      \* clear() has been called
    batches,           \* upload pass: address -> SetParameter batches sent
    calls,             \* enable, disable, clear of the poller so far
    run_time,          \* time spent in state running since the start ack
    gcalls,            \* requests made to the GameManager so far
    asked,             \* the request last made to the GameManager
    \* the delay timer's clock
    timer_left,        \* time until the running _timer expires
    since_final,       \* time since the last _finalize_request, up to the delay
    since_submit       \* time since the last send_command made in state idle

tvars == <<transport_state, command_queue, timer_active, unsent_bytes,
           read_complete, write_complete>>
pvars == <<port_open, tx_pending, rx, wire>>
dvars == <<enabled, current_device, devices, upload, first_uploaded>>
gvars == <<game_state, tick_active, sw_valid, sw, prev_elapsed_time>>
hvars == <<submitted, in_flight, premature, clear_called, batches, calls>>
ghist == <<run_time, gcalls, asked>>
clock == <<timer_left, since_final, since_submit>>
vars == <<tvars, pvars, dvars, gvars, settings, err, hvars, ghist, clock>>

\* ------------------------------------------------------------- requests
Request(k, a, p, v) == [k |-> k, a |-> a, p |-> p, v |-> v]
Ping == Request("Ping", 0, 0, 0)
ClientCmd(n) == Request("Cmd", n, 0, 0)
GetInfo(a) == Request("GetInfo", a, 0, 0)
SetParameter(a, p, v) == Request("SetParameter", a, p, v)
Reset4Combat == Request("Reset4Combat", 0, 0, 0)
SetState4Combat(n) == Request("SetState4Combat", n, 0, 0)
NoRequest == Request("", 0, 0, 0)

Command(request, callback) == [request |-> request, callback |-> callback]

\* number of characters of "{:d}".format(n), n >= 0
Digits(n) == IF n < 10 THEN 1 ELSE IF n < 100 THEN 2 ELSE 3

\* len(bytes(request, 'ascii')) of the request lines
ReqLen(r) ==
    CASE r.k = "Ping" -> PingLen
      [] r.k = "Cmd" -> CmdLen
      [] r.k = "GetInfo" -> 8 + Digits(r.a) + 2
      [] r.k = "SetParameter" ->
             13 + Digits(r.a) + 2 + Digits(r.p) + 2 + Digits(r.v) + 2
      [] r.k = "Reset4Combat" -> 12 + 2
      [] r.k = "SetState4Combat" -> 15 + 1 + Digits(r.a) + 2
      [] OTHER -> 2

\* ------------------------------------------------------------ responses
\* A received line: leading blanks, an optional leading word, and the
\* unsigned integers that follow it.  The line terminator is implicit.
Line(pad, word, nums) == [pad |-> pad, word |-> word, nums |-> nums]
\* bytes(readLine()).decode('ascii').strip()
Strip(line) == [word |-> line.word, nums |-> line.nums]
IsEmptyText(t) == t.word = "" /\ t.nums = <<>>
Ack0 == [word |-> "Ack", nums |-> <<0>>]
Ack2 == [word |-> "Ack", nums |-> <<2>>]

\* ---------------------------------------------------------------- enums
\* DeviceType(n), DeviceMode(n), DeviceState(n): the member of value n;
\* "ValueError" when the enum has no member of that value.
DeviceType(n) ==
    CASE n = 0 -> "tank" [] n = 1 -> "target" [] n = 2 -> "turret"
      [] OTHER -> "ValueError"
DeviceTypeValue(t) ==
    CASE t = "tank" -> 0 [] t = "target" -> 1 [] t = "turret" -> 2
DeviceMode(n) ==
    CASE n = 0 -> "training" [] n = 1 -> "combat" [] OTHER -> "ValueError"
DeviceStateValue(st) ==
    CASE st = "unknown" -> -1 [] st = "previous" -> 0 [] st = "paused" -> 1
      [] st = "operational" -> 2 [] st = "reload" -> 3 [] st = "damaged" -> 4
      [] st = "destroyed" -> 5
DeviceState(n) ==
    CASE n = -1 -> "unknown" [] n = 0 -> "previous" [] n = 1 -> "paused"
      [] n = 2 -> "operational" [] n = 3 -> "reload" [] n = 4 -> "damaged"
      [] n = 5 -> "destroyed" [] OTHER -> "ValueError"
\* DeviceParam[name].value; 0 when the enum has no member of that name,
\* where the subscript raises KeyError.
DeviceParam(name) ==
    CASE name = "DefaultHitCnt" -> 1 [] name = "CurrentHitCnt" -> 2
      [] name = "Group" -> 3 [] name = "IRPower" -> 4
      [] name = "IRDamage" -> 5 [] name = "ReloadTime" -> 6
      [] name = "RepairTime" -> 7 [] OTHER -> 0

\* -------------------------------------------------------------- settings
\* A group of the settings file: its keys in childKeys() order with values.
KV(k, v) == [key |-> k, value |-> v]
NoKeys == <<>>
\* params[key] = value on an insertion-ordered dict
DictSet(d, k, v) ==
    IF \E i \in 1..Len(d) : d[i].key = k
    THEN [i \in 1..Len(d) |-> IF d[i].key = k THEN KV(k, v) ELSE d[i]]
    ELSE Append(d, KV(k, v))
RECURSIVE DictUpdate(_, _)
DictUpdate(d, group) ==
    IF group = <<>> THEN d
    ELSE DictUpdate(DictSet(d, Head(group).key, Head(group).value), Tail(group))
Settings(loaded, default, tank, first) ==
    [loaded |-> loaded, Default |-> default, Type_0 |-> tank, Device_1 |-> first]
\* SettingsManager.get_device_params
get_device_params(device_type, device_id) ==
    IF ~settings.loaded THEN <<>>
    ELSE LET d0 == DictUpdate(<<>>, settings.Default)
             d1 == DictUpdate(d0, IF DeviceTypeValue(device_type) = 0
                                  THEN settings.Type_0 ELSE NoKeys)
         IN DictUpdate(d1, IF device_id = 1 THEN settings.Device_1 ELSE NoKeys)
\* The settings files explored: recognized keys with overrides by type and
\* by device, and an unrecognized key after a recognized one.
SettingsFiles ==
    { Settings(TRUE, <<KV("IRPower", 3)>>, <<KV("IRPower", 5)>>,
               <<KV("IRPower", 9)>>),
      Settings(TRUE, <<KV("IRPower", 3), KV("Zoom", 1)>>, NoKeys, NoKeys) }

\* -------------------------------------------------------- DeviceManager
DM(e, c, d, u, f) ==
    [enabled |-> e, current_device |-> c, devices |-> d, upload |-> u,
     first_uploaded |-> f]
DMNow == DM(enabled, current_device, devices, upload, first_uploaded)
\* What a DeviceManager method leaves behind: its state, the commands it
\* handed to send_command in order, whether upload_finished was emitted and
\* the exception that ended it ("none" if it returned).
Effect(dm, sends, finished, e) ==
    [dm |-> dm, sends |-> sends, finished |-> finished, err |-> e]

\* the for loop of _query_next_device over params.items()
RECURSIVE ParamCommands(_, _, _)
ParamCommands(addr, params, sent) ==
    IF params = <<>> THEN [sends |-> sent, err |-> "none"]
    ELSE LET param_id == DeviceParam(Head(params).key)
         IN IF param_id = 0
            THEN [sends |-> sent, err |-> "KeyError"]
            ELSE ParamCommands(addr, Tail(params),
                     Append(sent, Command(SetParameter(addr, param_id,
                                              Head(params).value), "none")))

query_next_device(dm) ==
    IF ~dm.enabled THEN Effect(dm, <<>>, FALSE, "none")
    ELSE LET cur == dm.current_device
             query == Command(GetInfo(cur), "query")
             done == dm.upload /\ dm.first_uploaded /= NoDevice
                     /\ dm.first_uploaded = cur
             dm1 == IF done
                    THEN [dm EXCEPT !.first_uploaded = NoDevice,
                                    !.upload = FALSE]
                    ELSE dm
             dm2 == IF dm1.upload /\ dm1.first_uploaded = NoDevice
                    THEN [dm1 EXCEPT !.first_uploaded = cur]
                    ELSE dm1
             present == dm2.upload /\ cur \in DOMAIN dm2.devices
                        /\ ~dm2.devices[cur].missing_in_action
             batch == IF present
                      THEN ParamCommands(cur,
                               get_device_params(dm2.devices[cur].type,
                                                 dm2.devices[cur].id), <<>>)
                      ELSE [sends |-> <<>>, err |-> "none"]
         IN Effect(dm2, <<query>> \o batch.sends, done, batch.err)

\* self._info_parser.match(response): six unsigned integers at the start
InfoMatch(response) == response.word = "" /\ Len(response.nums) >= 6

Device(id, type, group, mode, state, health, time, mia) ==
    [id |-> id, type |-> type, group |-> group, mode |-> mode,
     state |-> state, health |-> health, time |-> time,
     missing_in_action |-> mia]

\* the validation of _process_query_response
InfoValid(f) ==
    /\ DeviceType(f[1]) /= "ValueError"
    /\ ~(f[2] < 0 \/ f[2] > 7)
    /\ DeviceMode(f[3]) /= "ValueError"
    /\ DeviceState(f[4]) /= "ValueError"
    /\ ~(f[5] < 0 \/ f[5] > 255)
    /\ ~(f[6] < 0)

\* mutant: "Ack 2" for an address without a record creates one
InterpretResponse_ack_creates(devs, cur, response) ==
    IF response = Ack2
    THEN [a \in DOMAIN devs \cup {cur} |->
             IF a = cur
             THEN IF cur \in DOMAIN devs
                  THEN [devs[cur] EXCEPT !.missing_in_action = TRUE]
                  ELSE Device(cur, "tank", 0, "training", "unknown", 0, 0,
                              TRUE)
             ELSE devs[a]]
    ELSE IF InfoMatch(response) /\ InfoValid(response.nums)
         THEN LET f == response.nums
                  device == Device(cur, DeviceType(f[1]), f[2],
                                   DeviceMode(f[3]), DeviceState(f[4]),
                                   f[5], f[6], FALSE)
              IN [a \in DOMAIN devs \cup {cur} |->
                     IF a = cur THEN device ELSE devs[a]]
         ELSE devs

\* _devices after the response has been interpreted
InterpretResponse(devs, cur, response) ==
    IF response = Ack2
    THEN IF cur \in DOMAIN devs
         THEN [devs EXCEPT ![cur].missing_in_action = TRUE]
         ELSE devs
    ELSE IF InfoMatch(response) /\ InfoValid(response.nums)
         THEN LET f == response.nums
                  device == Device(cur, DeviceType(f[1]), f[2],
                                   DeviceMode(f[3]), DeviceState(f[4]),
                                   f[5], f[6], FALSE)
              IN [a \in DOMAIN devs \cup {cur} |->
                     IF a = cur THEN device ELSE devs[a]]
         ELSE devs

process_query_response(dm, response) ==
    LET devs == InterpretResponse(dm.devices, dm.current_device, response)
        next == IF dm.current_device + 1 > LAST_DEVICE
                THEN FIRST_DEVICE ELSE dm.current_device + 1
        dm1 == [dm EXCEPT !.devices = devs, !.current_device = next]
    IN IF dm1.enabled THEN query_next_device(dm1)
       ELSE Effect(dm1, <<>>, FALSE, "none")

\* callback(response) for the callbacks registered with send_command
Callback(callback, dm, response) ==
    CASE callback = "query" -> process_query_response(dm, response)
      [] OTHER -> Effect(dm, <<>>, FALSE, "none")

\* ---------------------------------------------------------- GameManager
GM(st, t, v, e, p) ==
    [state |-> st, tick |-> t, valid |-> v, sw |-> e, prev |-> p]
GMNow == GM(game_state, tick_active, sw_valid, sw, prev_elapsed_time)
SetGM(gm) ==
    /\ game_state' = gm.state
    /\ tick_active' = gm.tick
    /\ sw_valid' = gm.valid
    /\ sw' = gm.sw
    /\ prev_elapsed_time' = gm.prev

\* elapsed_time of refresh_time, in milliseconds
ElapsedTime(gm) == gm.prev + (IF gm.valid THEN gm.sw ELSE 0)
\* the seconds refresh_time publishes and returns
refresh_time(gm) == ElapsedTime(gm) \div 1000

start_timer(gm, reset) ==
    [gm EXCEPT !.prev = IF reset THEN 0 ELSE @,
               !.valid = TRUE, !.sw = 0, !.tick = TRUE]

stop_timer(gm, reset) ==
    [gm EXCEPT !.tick = FALSE,
               !.prev = IF reset THEN 0
                        ELSE IF gm.valid THEN @ + gm.sw ELSE @,
               !.valid = FALSE, !.sw = 0]

GameManager_enable(gm) ==
    IF gm.state /= "disabled" THEN gm
    ELSE [stop_timer(gm, TRUE) EXCEPT !.state = "idle"]

GameManager_disable(gm) == [stop_timer(gm, TRUE) EXCEPT !.state = "disabled"]

\* the requests: the commands each hands to send_command
\* mutant: reset_game without the test of the state
reset_game_any_state(gm) == <<Command(Reset4Combat, "reset")>>
reset_game(gm) ==
    IF gm.state = "disabled" THEN <<>>
    ELSE <<Command(Reset4Combat, "reset")>>

start_game(gm) ==
    IF gm.state /= "ready" THEN <<>>
    ELSE <<Command(SetState4Combat(DeviceStateValue("operational")),
                   "start")>>

stop_game(gm) ==
    IF gm.state /= "running" /\ gm.state /= "paused" THEN <<>>
    ELSE <<Command(SetState4Combat(DeviceStateValue("destroyed")), "stop")>>

\* mutant: pause_game that pauses from every state but paused
pause_game_any_state(gm) ==
    IF gm.state = "paused"
    THEN <<Command(SetState4Combat(DeviceStateValue("previous")),
                   "unpause")>>
    ELSE <<Command(SetState4Combat(DeviceStateValue("paused")), "pause")>>
pause_game(gm) ==
    IF gm.state /= "running" /\ gm.state /= "paused" THEN <<>>
    ELSE IF gm.state = "running"
    THEN <<Command(SetState4Combat(DeviceStateValue("paused")), "pause")>>
    ELSE <<Command(SetState4Combat(DeviceStateValue("previous")),
                   "unpause")>>

\* the completion callbacks
process_reset_response(gm, response) ==
    IF response = Ack0 THEN [stop_timer(gm, TRUE) EXCEPT !.state = "ready"]
    ELSE gm

process_start_response(gm, response) ==
    IF response = Ack0 THEN [start_timer(gm, TRUE) EXCEPT !.state = "running"]
    ELSE gm

\* mutant: _process_stop_response that does not look at the response
process_stop_response_any(gm, response) ==
    [stop_timer(gm, FALSE) EXCEPT !.state = "idle"]
process_stop_response(gm, response) ==
    IF response = Ack0 THEN [stop_timer(gm, FALSE) EXCEPT !.state = "idle"]
    ELSE gm

process_pause_response(gm, response) ==
    IF response = Ack0 THEN [stop_timer(gm, FALSE) EXCEPT !.state = "paused"]
    ELSE gm

process_unpause_response(gm, response) ==
    IF response = Ack0
    THEN [start_timer(gm, FALSE) EXCEPT !.state = "running"]
    ELSE gm

GameCallbacks == {"reset", "start", "stop", "pause", "unpause"}
\* callback(response) for the callbacks the GameManager registers
GameCallback(callback, gm, response) ==
    CASE callback = "reset" -> process_reset_response(gm, response)
      [] callback = "start" -> process_start_response(gm, response)
      [] callback = "stop" -> process_stop_response(gm, response)
      [] callback = "pause" -> process_pause_response(gm, response)
      [] callback = "unpause" -> process_unpause_response(gm, response)
      [] OTHER -> gm

\* mutant: _timer_callback that stops the game whatever the elapsed time
timer_callback_no_duration(gm) ==
    IF gm.state = "running" THEN stop_game(gm) ELSE <<>>
\* _timer_callback: the commands it hands to send_command
timer_callback(gm) ==
    IF gm.state = "running" /\ refresh_time(gm) >= GameDuration
    THEN stop_game(gm)
    ELSE <<>>

\* ----------------------------------------------------- CommandTransport
\* mutant: _process_request without the test for the idle state
process_request_any_state(st, q) ==
    /\ UNCHANGED port_open
    /\ IF ~port_open
       THEN /\ transport_state' = "disabled"
            /\ UNCHANGED <<unsent_bytes, read_complete, write_complete,
                           tx_pending, rx, wire, err>>
       ELSE IF q = <<>>
       THEN /\ err' = "IndexError"
            /\ transport_state' = st
            /\ UNCHANGED <<unsent_bytes, read_complete, write_complete,
                           tx_pending, rx, wire>>
       ELSE /\ tx_pending <= MaxTx
            /\ unsent_bytes' = ReqLen(Head(q).request)
            /\ transport_state' = "work"
            /\ read_complete' = FALSE
            /\ write_complete' = FALSE
            /\ rx' = <<>>
            /\ wire' = Head(q).request
            /\ tx_pending' = tx_pending + ReqLen(Head(q).request)
            /\ UNCHANGED err

\* mutant: _process_request without the test for the open link
process_request_unopened(st, q) ==
    /\ UNCHANGED port_open
    /\ IF st /= "idle"
       THEN /\ transport_state' = st
            /\ UNCHANGED <<unsent_bytes, read_complete, write_complete,
                           tx_pending, rx, wire, err>>
       ELSE IF q = <<>>
       THEN /\ err' = "IndexError"
            /\ transport_state' = st
            /\ UNCHANGED <<unsent_bytes, read_complete, write_complete,
                           tx_pending, rx, wire>>
       ELSE /\ tx_pending <= MaxTx
            /\ unsent_bytes' = ReqLen(Head(q).request)
            /\ transport_state' = "work"
            /\ read_complete' = FALSE
            /\ write_complete' = FALSE
            /\ rx' = <<>>
            /\ wire' = Head(q).request
            /\ tx_pending' = tx_pending + ReqLen(Head(q).request)
            /\ UNCHANGED err

\* _process_request with the state and queue its caller left; the write
\* goes to the port, which reports it later through bytesWritten.
process_request(st, q) ==
    /\ UNCHANGED port_open
    /\ IF st /= "idle"
       THEN /\ transport_state' = st
            /\ UNCHANGED <<unsent_bytes, read_complete, write_complete,
                           tx_pending, rx, wire, err>>
       ELSE IF ~port_open
       THEN /\ transport_state' = "disabled"
            /\ UNCHANGED <<unsent_bytes, read_complete, write_complete,
                           tx_pending, rx, wire, err>>
       ELSE IF q = <<>>
       THEN /\ err' = "IndexError"
            /\ transport_state' = st
            /\ UNCHANGED <<unsent_bytes, read_complete, write_complete,
                           tx_pending, rx, wire>>
       ELSE /\ tx_pending <= MaxTx
            /\ unsent_bytes' = ReqLen(Head(q).request)
            /\ transport_state' = "work"
            /\ read_complete' = FALSE
            /\ write_complete' = FALSE
            /\ rx' = <<>>
            /\ wire' = Head(q).request
            /\ tx_pending' = tx_pending + ReqLen(Head(q).request)
            /\ UNCHANGED err

\* _finalize_request, called in state work with the queue q
finalize_request(q) ==
    IF q = <<>>
    THEN /\ err' = "IndexError"
         /\ command_queue' = q
         /\ UNCHANGED <<transport_state, timer_active>>
    ELSE /\ command_queue' = Tail(q)
         /\ transport_state' = "idle"
         /\ timer_active' = (IF Len(Tail(q)) /= 0 THEN TRUE ELSE timer_active)
         /\ UNCHANGED err

\* mutant: enable() without the test for the disabled state
CommandTransport_enable_always ==
    LET q == Append(command_queue, Command(Ping, "none"))
    IN /\ Len(q) <= MaxQueue
       /\ command_queue' = q
       /\ timer_active' = TRUE
       /\ process_request("idle", q)

CommandTransport_enable ==
    IF transport_state /= "disabled"
    THEN UNCHANGED <<tvars, pvars, err>>
    ELSE LET q == Append(command_queue, Command(Ping, "none"))
         IN /\ Len(q) <= MaxQueue
            /\ command_queue' = q
            /\ timer_active' = TRUE
            /\ process_request("idle", q)

CommandTransport_disable ==
    /\ timer_active' = FALSE
    /\ transport_state' = "disabled"
    /\ UNCHANGED <<command_queue, unsent_bytes, read_complete,
                   write_complete, pvars, err>>

CommandTransport_clear ==
    /\ timer_active' = FALSE
    /\ command_queue' = <<>>
    /\ unsent_bytes' = 0
    /\ UNCHANGED <<transport_state, read_complete, write_complete, pvars,
                   err>>

\* mutant: send_command that puts the command at the front of the queue
send_commands_front(cmds) ==
    /\ Len(command_queue) + Len(cmds) <= MaxQueue
    /\ command_queue' = cmds \o command_queue
    /\ timer_active' = (IF transport_state = "idle" /\ cmds /= <<>>
                        THEN TRUE ELSE timer_active)

\* send_command for each of cmds in turn
send_commands(cmds) ==
    /\ Len(command_queue) + Len(cmds) <= MaxQueue
    /\ command_queue' = command_queue \o cmds
    /\ timer_active' = (IF transport_state = "idle" /\ cmds /= <<>>
                        THEN TRUE ELSE timer_active)

\* the slot of the delay timer's timeout
timer_timeout ==
    /\ timer_active
    /\ timer_active' = FALSE
    /\ process_request(transport_state, command_queue)
    /\ UNCHANGED command_queue

\* mutant: _handle_write that finalizes without looking at _read_complete
handle_write_no_read(sent_bytes) ==
    IF transport_state /= "work"
    THEN UNCHANGED <<tvars, err>>
    ELSE /\ unsent_bytes' = unsent_bytes - sent_bytes
         /\ UNCHANGED read_complete
         /\ IF unsent_bytes - sent_bytes = 0
            THEN /\ write_complete' = TRUE
                 /\ finalize_request(command_queue)
            ELSE UNCHANGED <<write_complete, transport_state, command_queue,
                             timer_active, err>>

handle_write(sent_bytes) ==
    IF transport_state /= "work"
    THEN UNCHANGED <<tvars, err>>
    ELSE /\ unsent_bytes' = unsent_bytes - sent_bytes
         /\ UNCHANGED read_complete
         /\ IF unsent_bytes - sent_bytes = 0
            THEN /\ write_complete' = TRUE
                 /\ IF read_complete
                    THEN finalize_request(command_queue)
                    ELSE UNCHANGED <<transport_state, command_queue,
                                     timer_active, err>>
            ELSE UNCHANGED <<write_complete, transport_state, command_queue,
                             timer_active, err>>

SetDM(dm) ==
    /\ enabled' = dm.enabled
    /\ current_device' = dm.current_device
    /\ devices' = dm.devices
    /\ upload' = dm.upload
    /\ first_uploaded' = dm.first_uploaded

\* _handle_read with buf the complete lines in the port's read buffer
handle_read(buf) ==
    IF transport_state /= "work" \/ buf = <<>>
    THEN /\ rx' = buf
         /\ UNCHANGED <<tvars, dvars, gvars, err>>
    ELSE LET response == Strip(Head(buf))
         IN /\ rx' = Tail(buf)
            /\ IF IsEmptyText(response)
               THEN UNCHANGED <<tvars, dvars, gvars, err>>
               ELSE IF command_queue = <<>>
               THEN /\ err' = "IndexError"
                    /\ UNCHANGED <<tvars, dvars, gvars>>
               ELSE LET eff == Callback(Head(command_queue).callback,
                                        DMNow, response)
                        q == command_queue \o eff.sends
                    IN /\ Len(q) <= MaxQueue
                       /\ SetDM(eff.dm)
                       /\ SetGM(GameCallback(Head(command_queue).callback,
                                             GMNow, response))
                       /\ UNCHANGED <<unsent_bytes, write_complete>>
                       /\ IF eff.err /= "none"
                          THEN /\ err' = eff.err
                               /\ command_queue' = q
                               /\ UNCHANGED <<transport_state, timer_active,
                                              read_complete>>
                          ELSE /\ read_complete' = TRUE
                               /\ IF write_complete
                                  THEN finalize_request(q)
                                  ELSE /\ command_queue' = q
                                       /\ UNCHANGED <<transport_state,
                                                      timer_active, err>>

\* ------------------------------------------------------------ QSerialPort
\* open(ReadWrite) succeeding, and close(): both leave empty buffers
serial_open ==
    /\ ~port_open
    /\ port_open' = TRUE
    /\ rx' = <<>>
    /\ tx_pending' = 0
    /\ UNCHANGED wire

serial_close ==
    /\ port_open
    /\ port_open' = FALSE
    /\ rx' = <<>>
    /\ tx_pending' = 0
    /\ UNCHANGED wire

\* a line from the link reaches the read buffer
serial_receive(line) ==
    /\ port_open
    /\ Len(rx) < MaxRx
    /\ rx' = Append(rx, line)
    /\ UNCHANGED <<port_open, tx_pending, wire>>

\* ------------------------------------------------------------ observation
Wrote == transport_state /= "work" /\ transport_state' = "work"
Finalized == transport_state = "work" /\ transport_state' = "idle"
Requests(q) == {q[i].request : i \in 1..Len(q)}

\* the history of a step of the transport, named name
ObserveTransport(name) ==
    /\ in_flight' =
         LET dropped == IF name \in {"disable", "clear"} THEN in_flight
                        ELSE {}
             done == IF Finalized THEN {Head(command_queue).request} ELSE {}
             new == IF Wrote THEN {Head(command_queue').request} ELSE {}
         IN ((in_flight \ dropped) \ done) \cup new
    /\ premature' = premature \cup
         (IF Finalized /\ ~(write_complete' /\ read_complete')
          THEN {Head(command_queue).request} ELSE {})
    /\ clear_called' = (clear_called \/ name = "clear")

\* ------------------------------------------- the transport and its client
Running == err = "none"

\* the lines the link delivers to a client of the transport
ClientLines == {Line(1, "", <<>>), Line(0, "Ack", <<0>>)}

InitCommon ==
    /\ transport_state = "disabled"
    /\ command_queue = <<>>
    /\ timer_active = FALSE
    /\ unsent_bytes = 0
    /\ read_complete = FALSE
    /\ write_complete = FALSE
    /\ port_open = FALSE
    /\ tx_pending = 0
    /\ rx = <<>>
    /\ wire = NoRequest
    /\ enabled = FALSE
    /\ current_device = FIRST_DEVICE
    /\ devices = <<>>
    /\ upload = FALSE
    /\ first_uploaded = NoDevice
    /\ err = "none"
    /\ submitted = 0
    /\ in_flight = {}
    /\ premature = {}
    /\ clear_called = FALSE
    /\ batches = <<>>
    /\ calls = 0
    /\ game_state = "disabled"
    /\ tick_active = FALSE
    /\ sw_valid = FALSE
    /\ sw = 0
    /\ prev_elapsed_time = 0
    /\ run_time = 0
    /\ gcalls = 0
    /\ asked = "none"
    /\ timer_left = 0
    /\ since_final = COMMAND_DELAY
    /\ since_submit = COMMAND_DELAY

Init ==
    /\ InitCommon
    /\ settings = Settings(FALSE, NoKeys, NoKeys, NoKeys)

Enable ==
    /\ Running
    /\ CommandTransport_enable
    /\ UNCHANGED <<dvars, settings, submitted, batches, calls>>
    /\ UNCHANGED <<gvars, ghist>>
    /\ UNCHANGED clock
    /\ ObserveTransport("enable")

Disable ==
    /\ Running
    /\ CommandTransport_disable
    /\ UNCHANGED <<dvars, settings, submitted, batches, calls>>
    /\ UNCHANGED <<gvars, ghist>>
    /\ UNCHANGED clock
    /\ ObserveTransport("disable")

Clear ==
    /\ Running
    /\ CommandTransport_clear
    /\ UNCHANGED <<dvars, settings, submitted, batches, calls>>
    /\ UNCHANGED <<gvars, ghist>>
    /\ UNCHANGED clock
    /\ ObserveTransport("clear")

SendCommand ==
    /\ Running
    /\ submitted < MaxCmds
    /\ send_commands(<<Command(ClientCmd(submitted + 1), "user")>>)
    /\ submitted' = submitted + 1
    /\ UNCHANGED <<transport_state, unsent_bytes, read_complete,
                   write_complete, pvars, dvars, settings, err, batches, calls>>
    /\ UNCHANGED <<gvars, ghist>>
    /\ UNCHANGED clock
    /\ ObserveTransport("send_command")

TimerTimeout ==
    /\ Running
    /\ timer_timeout
    /\ UNCHANGED <<dvars, settings, submitted, batches, calls>>
    /\ UNCHANGED <<gvars, ghist>>
    /\ UNCHANGED clock
    /\ ObserveTransport("timeout")

BytesWritten ==
    /\ Running
    /\ \E sent_bytes \in {tx_pending, Chunk} \cap 1..tx_pending :
          /\ tx_pending' = tx_pending - sent_bytes
          /\ handle_write(sent_bytes)
    /\ UNCHANGED <<port_open, rx, wire, dvars, settings, submitted, batches, calls>>
    /\ UNCHANGED <<gvars, ghist>>
    /\ UNCHANGED clock
    /\ ObserveTransport("handle_write")

ReadyRead ==
    /\ Running
    /\ port_open
    /\ handle_read(rx)
    /\ UNCHANGED <<port_open, tx_pending, wire, settings, submitted, batches, calls>>
    /\ UNCHANGED ghist
    /\ UNCHANGED clock
    /\ ObserveTransport("handle_read")

Receive ==
    /\ Running
    /\ \E line \in ClientLines : serial_receive(line)
    /\ UNCHANGED <<tvars, dvars, settings, err, submitted, batches, calls>>
    /\ UNCHANGED <<gvars, ghist>>
    /\ UNCHANGED clock
    /\ ObserveTransport("receive")

Open ==
    /\ Running
    /\ serial_open
    /\ UNCHANGED <<tvars, dvars, settings, err, submitted, batches, calls>>
    /\ UNCHANGED <<gvars, ghist>>
    /\ UNCHANGED clock
    /\ ObserveTransport("open")

Close ==
    /\ Running
    /\ serial_close
    /\ UNCHANGED <<tvars, dvars, settings, err, submitted, batches, calls>>
    /\ UNCHANGED <<gvars, ghist>>
    /\ UNCHANGED clock
    /\ ObserveTransport("close")

Next ==
    \/ Enable \/ Disable \/ Clear \/ SendCommand \/ TimerTimeout
    \/ BytesWritten \/ ReadyRead \/ Receive \/ Open \/ Close

Spec == Init /\ [][Next]_vars

\* ------------------------------------------------ claims on the transport
\* a ReadyRead step that reads a full line that is non-empty once stripped
ReadLine == ReadyRead /\ rx /= <<>> /\ ~IsEmptyText(Strip(Head(rx)))

\* C1: at most one queued command is in flight, and a client's N-th command
\* is written to the link only when every earlier command of that client
\* has left the queue, none of them popped without both its write- and its
\* read-completion recorded (FIFO order of submission).
C1_OneInFlightFIFO ==
    [][ /\ Cardinality(in_flight') <= 1
        /\ Wrote /\ wire'.k = "Cmd" =>
              \A m \in 1..(wire'.a - 1) :
                  /\ ClientCmd(m) \notin Requests(command_queue')
                  /\ ClientCmd(m) \notin premature' ]_vars
\* the client's second command is in flight after its first was finalized
C1_Witness ==
    /\ transport_state = "work" /\ wire = ClientCmd(2)
    /\ in_flight = {ClientCmd(2)} /\ ~clear_called

\* C2: the head is popped and the transport goes from work to idle exactly
\* when both _write_complete and _read_complete are set: a pop (other than
\* by clear) and the step to idle happen only with both flags set, and the
\* transport is never left in work with both flags set.
C2_FinalizeIffBoth ==
    [][ /\ (command_queue /= <<>> /\ command_queue' = Tail(command_queue)
              /\ ~Clear)
           => Finalized /\ write_complete' /\ read_complete'
        /\ Finalized => /\ write_complete' /\ read_complete'
                        /\ command_queue /= <<>>
                        /\ command_queue' = Tail(command_queue)
        /\ transport_state' = "work"
           => ~(write_complete' /\ read_complete') ]_vars
\* a client command has been finalized and the transport is idle again
C2_Witness ==
    /\ transport_state = "idle" /\ write_complete /\ read_complete
    /\ wire = ClientCmd(1) /\ ClientCmd(1) \notin Requests(command_queue)
    /\ ~clear_called

\* C3: clear() empties the queue, zeroes the unsent-byte counter and stops
\* the timer in every transport state, and once clear() has been called no
\* later event ends in an error.
C3_ClearSafe ==
    [][ /\ Clear => /\ command_queue' = <<>> /\ unsent_bytes' = 0
                    /\ ~timer_active'
        /\ clear_called' => err' = "none" ]_vars

\* C4: while the command in flight has no read-completion, a step that is
\* not disable(), clear() or the read of a non-empty line leaves the
\* transport in work with the same head, and writes nothing to the link.
C4_StallsWithoutReply ==
    [][ ( /\ transport_state = "work" /\ command_queue /= <<>>
          /\ in_flight = {Head(command_queue).request}
          /\ ~read_complete
          /\ ~(Disable \/ Clear \/ ReadLine) )
        => /\ transport_state' = "work"
           /\ command_queue' /= <<>>
           /\ Head(command_queue') = Head(command_queue)
           /\ in_flight' = in_flight
           /\ wire' = wire
           /\ tx_pending' <= tx_pending
           /\ ~read_complete' ]_vars
\* the command in flight is written out and unanswered, the delay timer
\* has expired and a later command waits behind it
C4_Witness ==
    /\ transport_state = "work" /\ ~read_complete /\ write_complete
    /\ Len(command_queue) >= 2 /\ ~timer_active
    /\ in_flight = {Head(command_queue).request}
    /\ wire = Ping /\ submitted >= 1

\* C5 as claimed: enable() changes nothing unless the transport is
\* disabled; from disabled it appends one Ping and leaves the transport
\* enabled, so that a second enable() changes nothing.
C5_EnableIdempotent ==
    [][ Enable =>
          IF transport_state /= "disabled"
          THEN UNCHANGED <<tvars, pvars>>
          ELSE /\ command_queue' = Append(command_queue, Command(Ping, "none"))
               /\ transport_state' /= "disabled" ]_vars
\* C5 amended: enable() changes nothing unless the transport is disabled;
\* from disabled it appends one Ping and starts the delay timer, and with
\* the link open it writes the head of the queue at once (state work, so a
\* second enable() changes nothing), while with the link not open the
\* transport is disabled again and nothing is written.
C5_EnableAmended ==
    [][ Enable =>
          IF transport_state /= "disabled"
          THEN UNCHANGED <<tvars, pvars>>
          ELSE /\ command_queue' = Append(command_queue, Command(Ping, "none"))
               /\ timer_active'
               /\ IF port_open
                  THEN /\ transport_state' = "work"
                       /\ wire' = Head(command_queue').request
                       /\ unsent_bytes' = ReqLen(wire')
                       /\ tx_pending' = tx_pending + ReqLen(wire')
                       /\ ~read_complete' /\ ~write_complete'
                  ELSE /\ transport_state' = "disabled"
                       /\ UNCHANGED <<unsent_bytes, read_complete,
                                      write_complete, pvars>> ]_vars
\* enable() on an open link found a command left over from before disable()
\* and wrote it again, its Ping queued behind
C5_Witness ==
    /\ transport_state = "work" /\ wire = ClientCmd(1) /\ unsent_bytes = CmdLen
    /\ Len(command_queue) >= 2
    /\ command_queue[Len(command_queue)].request = Ping
    /\ timer_active /\ tx_pending > CmdLen

\* ------------------------------------------- the poller on the transport
\* the addresses that received a SetParameter among cmds
BatchAddrs(cmds) ==
    {cmds[i].request.a : i \in {j \in 1..Len(cmds) :
                                   cmds[j].request.k = "SetParameter"}}
\* batches after the commands cmds were handed to send_command
CountBatches(b, cmds) ==
    [a \in DOMAIN b \cup BatchAddrs(cmds) |->
        (IF a \in DOMAIN b THEN b[a] ELSE 0)
        + (IF a \in BatchAddrs(cmds) THEN 1 ELSE 0)]

DeviceManager_enable ==
    IF enabled
    THEN UNCHANGED <<dvars, command_queue, timer_active, err, batches>>
    ELSE LET eff == query_next_device([DMNow EXCEPT !.enabled = TRUE])
         IN /\ SetDM(eff.dm)
            /\ send_commands(eff.sends)
            /\ err' = eff.err
            /\ batches' = CountBatches(batches, eff.sends)

DeviceManager_disable ==
    /\ enabled' = FALSE
    /\ UNCHANGED <<current_device, devices, upload, first_uploaded>>

DeviceManager_clear ==
    /\ devices' = <<>>
    /\ current_device' = FIRST_DEVICE
    /\ UNCHANGED <<enabled, upload, first_uploaded>>

upload_settings ==
    /\ upload' = TRUE
    /\ batches' = (IF upload THEN batches ELSE <<>>)
    /\ UNCHANGED <<enabled, current_device, devices, first_uploaded>>

\* The devices on the link: those at PresentDevices answer GetInfo with
\* telemetry or, switched off, with "Ack 2"; a GetInfo to any other
\* address is answered "Ack 2"; line noise garbles an answer.
PresentDevices == {1, 2}
Telemetry(a) ==
    IF a = 1 THEN {<<0, 3, 1, 2, 100, 7>>}
    ELSE {<<2, 7, 0, 5, 255, 0>>}
Garbled ==
    {<<9, 3, 1, 2, 100, 7>>, <<0, 8, 1, 2, 100, 7>>, <<0, 3, 2, 2, 100, 7>>,
     <<0, 3, 1, 6, 100, 7>>, <<0, 3, 1, 2, 300, 7>>, <<0, 3, 1, 2, 100>>}
Replies(request) ==
    IF request.k = "GetInfo"
    THEN {Line(0, "Ack", <<2>>), Line(0, "Err", <<>>)}
         \cup {Line(0, "", f) : f \in Garbled}
         \cup (IF request.a \in PresentDevices
               THEN {Line(1, "", f) : f \in Telemetry(request.a)}
               ELSE {})
    ELSE {Line(0, "Ack", <<0>>)}

\* the operator calls the DeviceManager's methods while the poller is at
\* this address
ActAddrs == {1}
Acting == calls < MaxCalls /\ current_device \in ActAddrs

InitPoller ==
    /\ InitCommon
    /\ settings \in SettingsFiles

PollerEnable ==
    /\ Running
    /\ Acting
    /\ DeviceManager_enable
    /\ calls' = (IF dvars' /= dvars THEN calls + 1 ELSE calls)
    /\ UNCHANGED <<transport_state, unsent_bytes, read_complete,
                   write_complete, pvars, settings, submitted>>
    /\ UNCHANGED <<gvars, ghist>>
    /\ UNCHANGED clock
    /\ ObserveTransport("DeviceManager.enable")

PollerDisable ==
    /\ Running
    /\ Acting
    /\ DeviceManager_disable
    /\ calls' = (IF dvars' /= dvars THEN calls + 1 ELSE calls)
    /\ UNCHANGED <<tvars, pvars, settings, err, submitted, batches>>
    /\ UNCHANGED <<gvars, ghist>>
    /\ UNCHANGED clock
    /\ ObserveTransport("DeviceManager.disable")

PollerClear ==
    /\ Running
    /\ Acting
    /\ DeviceManager_clear
    /\ calls' = (IF dvars' /= dvars THEN calls + 1 ELSE calls)
    /\ UNCHANGED <<tvars, pvars, settings, err, submitted, batches>>
    /\ UNCHANGED <<gvars, ghist>>
    /\ UNCHANGED clock
    /\ ObserveTransport("DeviceManager.clear")

UploadSettings ==
    /\ Running
    /\ current_device \in ActAddrs
    /\ upload_settings
    /\ UNCHANGED <<tvars, pvars, settings, err, submitted, calls>>
    /\ UNCHANGED <<gvars, ghist>>
    /\ UNCHANGED clock
    /\ ObserveTransport("upload_settings")

\* bytesWritten for all that the port was given
PollerBytesWritten ==
    /\ Running
    /\ tx_pending > 0
    /\ tx_pending' = 0
    /\ handle_write(tx_pending)
    /\ UNCHANGED <<port_open, rx, wire, dvars, settings, submitted, batches,
                   calls>>
    /\ UNCHANGED <<gvars, ghist>>
    /\ UNCHANGED clock
    /\ ObserveTransport("handle_write")

\* the commands a step appended to the queue
Appended ==
    SubSeq(command_queue',
           Len(command_queue) + 1 - (IF Finalized THEN 1 ELSE 0),
           Len(command_queue'))

\* the device addressed by the request on the link answers it, and the
\* readyRead this raises is served
PollerReadyRead ==
    /\ Running
    /\ port_open
    /\ transport_state = "work"
    /\ ~read_complete
    /\ Len(rx) < MaxRx
    /\ \E line \in Replies(wire) : handle_read(Append(rx, line))
    /\ batches' = CountBatches(batches, Appended)
    /\ UNCHANGED <<port_open, tx_pending, wire, settings, submitted, calls>>
    /\ UNCHANGED ghist
    /\ UNCHANGED clock
    /\ ObserveTransport("handle_read")

NextPoller ==
    \/ Open \/ Enable \/ TimerTimeout \/ PollerBytesWritten
    \/ PollerEnable \/ PollerDisable \/ PollerClear \/ UploadSettings
    \/ PollerReadyRead

SpecPoller == InitPoller /\ [][NextPoller]_vars

\* ------------------------------------------------- claims on the poller
\* the step in which the response line answers the GetInfo in flight and
\* _process_query_response interprets it
QueryReply(line) ==
    /\ Running
    /\ transport_state = "work"
    /\ ~read_complete
    /\ command_queue /= <<>>
    /\ Head(command_queue).callback = "query"
    /\ line \in Replies(wire)
    /\ handle_read(Append(rx, line))
NextAddr(c) == IF c = LAST_DEVICE THEN FIRST_DEVICE ELSE c + 1
\* the GetInfo commands queued or in flight
Outstanding ==
    {i \in 1..Len(command_queue) : command_queue[i].request.k = "GetInfo"}

\* C6: the poller never has more than one GetInfo command outstanding
\* (queued or in flight) in the transport, whatever the sequence of
\* DeviceManager.enable(), disable(), clear() and poll responses.
C6_OnePollOutstanding == Cardinality(Outstanding) <= 1

FieldsInRange(f) ==
    /\ f[1] \in {0, 1, 2}
    /\ f[2] \in 0..7
    /\ f[3] \in {0, 1}
    /\ f[4] \in 0..5
    /\ f[5] \in 0..255
    /\ f[6] >= 0
\* the record made of the six fields for address a
Record(a, f) ==
    Device(a, DeviceType(f[1]), f[2], DeviceMode(f[3]), DeviceState(f[4]),
           f[5], f[6], FALSE)

\* C8: a GetInfo response of six integers with a field out of range leaves
\* the registry as it was; one with every field in range replaces the
\* record of the polled address by the six values, missing_in_action
\* cleared; either way no error is raised and the cursor advances by one,
\* 31 wrapping to 1.
C8_ValidatedTelemetry ==
    [][\A line \in Replies(wire) :
          (InfoMatch(Strip(line)) /\ QueryReply(line)) =>
             LET polled == Head(command_queue).request.a
             IN /\ err' = "none"
                /\ current_device' = NextAddr(current_device)
                /\ devices' =
                      IF FieldsInRange(line.nums)
                      THEN [a \in DOMAIN devices \cup {polled} |->
                               IF a = polled THEN Record(polled, line.nums)
                               ELSE devices[a]]
                      ELSE devices]_vars
\* What the handler does with six integers: as C8 states, but with the
\* record stored under the cursor, and with the KeyError of the upload
\* batch, which the handler goes on to queue, as the only error.
TelemetryAtCursor ==
    [][\A line \in Replies(wire) :
          (InfoMatch(Strip(line)) /\ QueryReply(line)) =>
             /\ err' \in {"none", "KeyError"}
             /\ err' = "KeyError" => upload
             /\ current_device' = NextAddr(current_device)
             /\ devices' =
                   IF FieldsInRange(line.nums)
                   THEN [a \in DOMAIN devices \cup {current_device} |->
                            IF a = current_device
                            THEN Record(current_device, line.nums)
                            ELSE devices[a]]
                   ELSE devices]_vars

\* C9: in one upload pass every address receives at most one batch of
\* SetParameter commands, a batch goes only to a device that is known and
\* not missing-in-action, and the pass is disarmed only when the cursor
\* returns to the address where the pass began, also when disable(),
\* enable() or clear() are called during the pass.
C9_UploadPassOnce ==
    [][/\ \A a \in DOMAIN batches' : batches'[a] <= 1
       /\ \A a \in BatchAddrs(Appended) :
             a \in DOMAIN devices' /\ ~devices'[a].missing_in_action
       /\ (upload /\ ~upload') => first_uploaded = current_device']_vars

\* the SetParameter commands for the recognized keys of params
RecognizedCommands(addr, params) ==
    LET known == SelectSeq(params, LAMBDA kv : DeviceParam(kv.key) /= 0)
    IN [i \in 1..Len(known) |->
           Command(SetParameter(addr, DeviceParam(known[i].key),
                                known[i].value), "none")]

\* C10: when a poll is issued in an upload pass for a device that is known
\* and not missing-in-action, the SetParameter commands queued behind the
\* GetInfo are those of the recognized keys configured for the device, an
\* unrecognized key is skipped, and no error is raised.
C10_UnknownKeySkipped ==
    [][(/\ Appended /= <<>>
        /\ Head(Appended).request = GetInfo(current_device')
        /\ upload'
        /\ current_device' \in DOMAIN devices'
        /\ ~devices'[current_device'].missing_in_action) =>
           LET device == devices'[current_device']
           IN /\ err' = "none"
              /\ Tail(Appended) =
                    RecognizedCommands(current_device',
                        get_device_params(device.type, device.id))]_vars

\* ------------------------------------------ the session on the transport
\* the controller answers a session command with "Ack 0", or refuses it
\* with "Ack 1" or " Err"
GameReplies(request) ==
    IF request.k \in {"Reset4Combat", "SetState4Combat"}
    THEN {Line(0, "Ack", <<0>>), Line(0, "Ack", <<1>>), Line(1, "Err", <<>>)}
    ELSE {Line(0, "Ack", <<0>>)}

GameEnable ==
    /\ Running
    /\ gcalls < MaxGameCalls
    /\ SetGM(GameManager_enable(GMNow))
    /\ gcalls' = (IF gvars' /= gvars THEN gcalls + 1 ELSE gcalls)
    /\ run_time' = (IF game_state = "disabled" THEN 0 ELSE run_time)
    /\ UNCHANGED <<tvars, pvars, dvars, settings, err, submitted, batches,
                   calls, asked>>
    /\ UNCHANGED clock
    /\ ObserveTransport("GameManager.enable")

GameDisable ==
    /\ Running
    /\ gcalls < MaxGameCalls
    /\ SetGM(GameManager_disable(GMNow))
    /\ gcalls' = (IF gvars' /= gvars THEN gcalls + 1 ELSE gcalls)
    /\ run_time' = 0
    /\ UNCHANGED <<tvars, pvars, dvars, settings, err, submitted, batches,
                   calls, asked>>
    /\ UNCHANGED clock
    /\ ObserveTransport("GameManager.disable")

\* the request name of the operator, which hands cmds to send_command
GameRequest(name, cmds) ==
    /\ Running
    /\ gcalls < MaxGameCalls
    /\ send_commands(cmds)
    /\ gcalls' = (IF cmds /= <<>> THEN gcalls + 1 ELSE gcalls)
    /\ asked' = name
    /\ UNCHANGED <<transport_state, unsent_bytes, read_complete,
                   write_complete, pvars, dvars, gvars, settings, err,
                   submitted, batches, calls, run_time>>
    /\ UNCHANGED clock
    /\ ObserveTransport("send_command")

ResetGame == GameRequest("reset", reset_game(GMNow))
StartGame == GameRequest("start", start_game(GMNow))
StopGame == GameRequest("stop", stop_game(GMNow))
PauseGame == GameRequest("pause", pause_game(GMNow))

\* the 250 ms timer of the GameManager expires
GameTick ==
    /\ Running
    /\ tick_active
    /\ send_commands(timer_callback(GMNow))
    /\ UNCHANGED <<transport_state, unsent_bytes, read_complete,
                   write_complete, pvars, dvars, gvars, settings, err,
                   submitted, batches, calls, ghist>>
    /\ UNCHANGED clock
    /\ ObserveTransport("send_command")

\* Step milliseconds pass
Advance ==
    /\ Running
    /\ sw_valid \/ game_state = "running"
    /\ ElapsedTime(GMNow) + Step <= MaxTime
    /\ run_time + Step <= MaxTime
    /\ sw' = (IF sw_valid THEN sw + Step ELSE sw)
    /\ run_time' = (IF game_state = "running" THEN run_time + Step
                    ELSE run_time)
    /\ UNCHANGED <<tvars, pvars, dvars, game_state, tick_active, sw_valid,
                   prev_elapsed_time, settings, err, hvars, gcalls, asked>>
    /\ UNCHANGED clock

\* the controller answers the request on the link with line, and the
\* readyRead this raises is served
GameRead(line) ==
    /\ Running
    /\ port_open
    /\ transport_state = "work"
    /\ ~read_complete
    /\ Len(rx) < MaxRx
    /\ line \in GameReplies(wire)
    /\ handle_read(Append(rx, line))
    /\ run_time' = (IF /\ command_queue /= <<>>
                       /\ Head(command_queue).callback \in {"reset", "start"}
                       /\ Strip(line) = Ack0
                    THEN 0 ELSE run_time)
    /\ UNCHANGED <<port_open, tx_pending, wire, settings, submitted,
                   batches, calls, gcalls, asked>>
    /\ UNCHANGED clock
    /\ ObserveTransport("handle_read")

GameReadyRead == \E line \in GameReplies(wire) : GameRead(line)

NextGame ==
    \/ Open \/ Enable \/ TimerTimeout \/ PollerBytesWritten
    \/ GameEnable \/ GameDisable
    \/ ResetGame \/ StartGame \/ StopGame \/ PauseGame
    \/ GameTick \/ Advance \/ GameReadyRead

SpecGame == Init /\ [][NextGame]_vars

\* the session with its timers firing, the bytes leaving the port, and
\* every command that keeps being sent answered with "Ack 0" in the end
SpecGameFair ==
    /\ SpecGame
    /\ WF_vars(TimerTimeout)
    /\ WF_vars(PollerBytesWritten)
    /\ WF_vars(GameTick)
    /\ SF_vars(GameRead(Line(0, "Ack", <<0>>)))

\* ------------------------------------------------------ the link lifecycle
\* the slots of disconnected on the transport: disable(), then clear()
transport_disconnected ==
    /\ timer_active' = FALSE
    /\ transport_state' = "disabled"
    /\ command_queue' = <<>>
    /\ unsent_bytes' = 0
    /\ UNCHANGED <<read_complete, write_complete>>

\* mutant: disconnected without DeviceManager.clear
poller_disconnected_no_clear ==
    /\ enabled' = FALSE
    /\ UNCHANGED <<current_device, devices, upload, first_uploaded>>
\* the slots of disconnected on the DeviceManager: disable(), then clear()
poller_disconnected ==
    /\ enabled' = FALSE
    /\ devices' = <<>>
    /\ current_device' = FIRST_DEVICE
    /\ UNCHANGED <<upload, first_uploaded>>

\* the slots of connected, run with the port just opened: the transport's
\* enable() writes the head of the queue, the DeviceManager's enable()
\* queues its first poll behind it, the GameManager's enable() goes idle
connected_slots ==
    LET q == IF transport_state /= "disabled" THEN command_queue
             ELSE Append(command_queue, Command(Ping, "none"))
        eff == IF enabled THEN Effect(DMNow, <<>>, FALSE, "none")
               ELSE query_next_device([DMNow EXCEPT !.enabled = TRUE])
    IN /\ Len(q) + Len(eff.sends) <= MaxQueue
       /\ command_queue' = q \o eff.sends
       /\ IF transport_state /= "disabled"
          THEN /\ UNCHANGED <<transport_state, unsent_bytes, read_complete,
                              write_complete, wire>>
               /\ tx_pending' = 0
               /\ timer_active' = (IF transport_state = "idle"
                                      /\ eff.sends /= <<>>
                                   THEN TRUE ELSE timer_active)
          ELSE /\ timer_active' = TRUE
               /\ unsent_bytes' = ReqLen(Head(q).request)
               /\ transport_state' = "work"
               /\ read_complete' = FALSE
               /\ write_complete' = FALSE
               /\ wire' = Head(q).request
               /\ tx_pending' = ReqLen(Head(q).request)
       /\ SetDM(eff.dm)
       /\ err' = eff.err
       /\ batches' = CountBatches(batches, eff.sends)
       /\ SetGM(GameManager_enable(GMNow))

\* PortManager.connect: open() fails on an open port, and succeeds or
\* fails on a closed one; a failure ends the handler with a message
Connect ==
    /\ Running
    /\ calls < MaxCalls
    /\ calls' = calls + 1
    /\ \E opened \in (IF port_open THEN {FALSE} ELSE BOOLEAN) :
          IF opened
          THEN /\ port_open' = TRUE
               /\ rx' = <<>>
               /\ connected_slots
               /\ run_time' = 0
          ELSE UNCHANGED <<tvars, pvars, dvars, gvars, err, batches,
                           run_time>>
    /\ UNCHANGED <<settings, submitted, gcalls, asked>>
    /\ UNCHANGED clock
    /\ ObserveTransport("enable")

\* PortManager.disconnect: readAll(), close(), and the slots of
\* disconnected
Disconnect ==
    /\ Running
    /\ calls < MaxCalls
    /\ port_open' = FALSE
    /\ rx' = <<>>
    /\ tx_pending' = 0
    /\ transport_disconnected
    /\ poller_disconnected
    /\ SetGM(GameManager_disable(GMNow))
    /\ calls' = calls + 1
    /\ run_time' = 0
    /\ UNCHANGED <<wire, settings, err, submitted, batches, gcalls, asked>>
    /\ UNCHANGED clock
    /\ ObserveTransport("clear")

\* what the link answers: a device to its GetInfo, the controller to a
\* session command
LinkReplies(request) ==
    IF request.k = "GetInfo" THEN Replies(request) ELSE GameReplies(request)

\* the answer to the request on the link arrives, and the readyRead this
\* raises is served
LinkReadyRead ==
    /\ Running
    /\ port_open
    /\ transport_state = "work"
    /\ ~read_complete
    /\ Len(rx) < MaxRx
    /\ \E line \in LinkReplies(wire) :
          /\ handle_read(Append(rx, line))
          /\ run_time' = (IF /\ command_queue /= <<>>
                             /\ Head(command_queue).callback
                                   \in {"reset", "start"}
                             /\ Strip(line) = Ack0
                          THEN 0 ELSE run_time)
    /\ batches' = CountBatches(batches, Appended)
    /\ UNCHANGED <<port_open, tx_pending, wire, settings, submitted, calls,
                   gcalls, asked>>
    /\ UNCHANGED clock
    /\ ObserveTransport("handle_read")

\* the operator resets the idle session and starts the ready one, once
\* each, while the poller is at an address of ActAddrs
LinkReset ==
    /\ current_device \in ActAddrs
    /\ game_state = "idle"
    /\ asked /= "reset"
    /\ ResetGame
LinkStart ==
    /\ current_device \in ActAddrs
    /\ game_state = "ready"
    /\ asked /= "start"
    /\ StartGame

NextLink ==
    \/ Connect \/ Disconnect \/ TimerTimeout \/ PollerBytesWritten
    \/ LinkReadyRead \/ LinkReset \/ LinkStart \/ Advance

SpecLink == Init /\ [][NextLink]_vars

\* ------------------------------------------------ claims on the session
\* the step in which line answers the command in flight, registered with
\* the callback cb
GameReply(cb, line) ==
    /\ Running
    /\ transport_state = "work"
    /\ ~read_complete
    /\ command_queue /= <<>>
    /\ Head(command_queue).callback = cb
    /\ handle_read(Append(rx, line))
AckLine == Line(0, "Ack", <<0>>)
NackLine == Line(0, "Ack", <<1>>)
ElapsedNow == ElapsedTime(GMNow)
ResetQueued == <<Command(Reset4Combat, "reset")>>

\* C11: reset_game() called in state disabled, ready, running or paused
\* sends no command and changes no state; called in idle it sends
\* Reset4Combat, and the "Ack 0" to it makes the state ready with elapsed
\* time zero.
C11_ResetOnlyInIdle ==
    [][/\ (ResetGame /\ game_state /= "idle") =>
              UNCHANGED <<command_queue, gvars>>
       /\ (ResetGame /\ game_state = "idle") =>
              Appended = ResetQueued /\ UNCHANGED gvars
       /\ GameReply("reset", AckLine) =>
              game_state' = "ready" /\ ElapsedNow' = 0]_vars
\* C11 as the code has it: no Reset4Combat is queued while the state is
\* disabled; reset_game() in any other state queues Reset4Combat and
\* changes no state; the "Ack 0" to it makes the state ready with elapsed
\* time zero and both timers stopped.
C11_ResetAmended ==
    [][/\ game_state = "disabled" =>
              \A i \in 1..Len(Appended) : Appended[i].request /= Reset4Combat
       /\ (ResetGame /\ game_state /= "disabled") =>
              Appended = ResetQueued /\ UNCHANGED gvars
       /\ GameReply("reset", AckLine) =>
              /\ game_state' = "ready"
              /\ ElapsedNow' = 0
              /\ ~tick_active' /\ ~sw_valid']_vars
\* a Reset4Combat is on the link while the session is running
C11_Witness ==
    /\ game_state = "running"
    /\ transport_state = "work"
    /\ wire = Reset4Combat
    /\ Head(command_queue).callback = "reset"

\* the commands pause_game() sends
PauseCallbacks == {"pause", "unpause"}

\* C12: pause_game() called in state idle, ready or disabled sends no
\* command and changes neither the session state nor the elapsed time, and
\* no pause or resume command is queued in these states.
C12_PauseRejected ==
    [][(game_state \in {"idle", "ready", "disabled"}) =>
          (/\ PauseGame => UNCHANGED <<command_queue, gvars>>
           /\ \A i \in 1..Len(Appended) :
                 Appended[i].callback \notin PauseCallbacks)]_vars
\* pause_game() was the last request, made in state ready, and nothing is
\* queued
C12_Witness ==
    /\ asked = "pause"
    /\ game_state = "ready"
    /\ command_queue = <<>>
    /\ ElapsedNow = 0

\* C13: a response other than "Ack 0" to a session command (Reset4Combat,
\* or SetState4Combat for start, stop, pause, resume) leaves the session
\* state, the elapsed time, the stopwatch and the tick timer as they were.
C13_RefusalChangesNothing ==
    [][\A cb \in GameCallbacks : \A line \in GameReplies(wire) :
          (Strip(line) /= Ack0 /\ GameReply(cb, line)) =>
             UNCHANGED gvars]_vars
\* the Reset4Combat sent from idle has been answered and the state is
\* still idle
C13_Witness ==
    /\ asked = "reset"
    /\ gcalls = 2
    /\ game_state = "idle"
    /\ command_queue = <<>>
    /\ transport_state = "idle"
    /\ wire = Reset4Combat

\* the transitions of the session state that are listed
ListedTransitions ==
    {<<"disabled", "idle">>, <<"idle", "ready">>, <<"ready", "running">>,
     <<"running", "paused">>, <<"paused", "running">>,
     <<"running", "idle">>, <<"paused", "idle">>}
    \cup {<<st, "disabled">> : st \in {"idle", "ready", "running", "paused"}}

\* C14: the session state changes only along the listed transitions, also
\* when several requests are submitted before the first one is
\* acknowledged.
C14_ListedTransitionsOnly ==
    [][game_state' /= game_state =>
          <<game_state, game_state'>> \in ListedTransitions]_vars

\* C15: the elapsed time never decreases while the state remains running,
\* does not change while the state remains paused or remains idle, and is
\* zero right after a reset ack, an enable() of the disabled session and a
\* disable().
C15_ElapsedOnlyWhileRunning ==
    [][/\ (game_state = "running" /\ game_state' = "running") =>
              ElapsedNow' >= ElapsedNow
       /\ (game_state \in {"paused", "idle"} /\ game_state' = game_state) =>
              ElapsedNow' = ElapsedNow
       /\ ((GameEnable /\ game_state = "disabled") \/ GameDisable
              \/ GameReply("reset", AckLine)) =>
              ElapsedNow' = 0]_vars

\* C16: once the session has been started, the published elapsed time (in
\* whole seconds) is the total time spent in state running since the start
\* ack: time between a pause ack and the resume ack adds nothing, and after
\* a stop ack the value stays where it was.
C16_ElapsedIsRunningTime ==
    (game_state \in {"running", "paused", "idle"}) =>
        refresh_time(GMNow) = run_time \div 1000

\* the command stop_game() sends
StopQueued ==
    <<Command(SetState4Combat(DeviceStateValue("destroyed")), "stop")>>
\* the duration has been reached in state running
DurationReached ==
    game_state = "running" /\ refresh_time(GMNow) >= GameDuration
\* nothing but stop commands is waiting on the transport
OnlyStopsQueued ==
    \A i \in 1..Len(command_queue) : command_queue[i].callback = "stop"

\* C17: a tick in state running with the elapsed time at or past the
\* configured duration sends the stop command, a tick in any other case
\* sends nothing, and once the duration is reached in state running with no
\* other command waiting, the state becomes idle, unless the session is
\* disabled or another command is submitted first.
C17_AutoStop ==
    /\ [][GameTick =>
             Appended = (IF DurationReached THEN StopQueued ELSE <<>>)]_vars
    /\ (DurationReached /\ OnlyStopsQueued)
          ~> (game_state \in {"idle", "disabled"} \/ ~OnlyStopsQueued)
\* the session went idle past the duration after enable(), reset_game()
\* and start_game() only
C17_Witness ==
    /\ game_state = "idle"
    /\ gcalls = 3
    /\ run_time >= GameDuration * 1000
    /\ command_queue = <<>>

\* a connect step that opened the port, and one whose open() failed
Connected == Connect /\ ~port_open /\ port_open'
OpenFailed == Connect /\ port_open' = port_open

\* C18: after a connect that opened the port the transport, the poller and
\* the session are enabled and the session is idle; a connect whose open()
\* failed changes none of them; after a disconnect the transport is
\* disabled with an empty queue, the poller is disabled with no Device
\* record and its cursor at address 1, and the session is disabled with
\* elapsed time zero.
C18_LinkLockstep ==
    [][/\ Connected =>
              /\ transport_state' /= "disabled"
              /\ enabled'
              /\ game_state' = "idle"
       /\ OpenFailed => UNCHANGED <<tvars, pvars, dvars, gvars>>
       /\ Disconnect =>
              /\ transport_state' = "disabled"
              /\ command_queue' = <<>>
              /\ ~enabled'
              /\ devices' = <<>>
              /\ current_device' = FIRST_DEVICE
              /\ game_state' = "disabled"
              /\ ElapsedNow' = 0]_vars
\* the link was closed after the session had been reset and started, and
\* is open again
C18_Witness ==
    /\ calls = 3
    /\ gcalls = 2
    /\ clear_called
    /\ port_open
    /\ enabled
    /\ transport_state /= "disabled"
    /\ game_state = "idle"
    /\ devices = <<>>

\* the GetInfo for address a waits in the queue ahead of position i, its
\* response not yet interpreted
Unanswered(i, a) ==
    \E j \in 1..(i - 1) :
       /\ command_queue[j].request = GetInfo(a)
       /\ ~(j = 1 /\ transport_state = "work" /\ read_complete)

\* C19: the SetParameter commands for an address are handed to the
\* transport only after the response to that address's GetInfo has been
\* interpreted: no SetParameter is queued behind a GetInfo for its address
\* that is still unanswered.
C19_ParametersAfterResponse ==
    \A i \in 1..Len(command_queue) :
       command_queue[i].request.k = "SetParameter" =>
          ~Unanswered(i, command_queue[i].request.a)

\* C20: the cursor is always an address in 1..31; every poll response
\* advances it by one, 31 wrapping to 1; and while the poller is enabled
\* the GetInfo issued on the response is for the advanced address, which
\* is the address after the one just polled, so that no address is skipped
\* or repeated.
C20_CursorRoundRobin ==
    [][/\ current_device' \in FIRST_DEVICE..LAST_DEVICE
       /\ \A line \in Replies(wire) :
             QueryReply(line) =>
                /\ current_device' = NextAddr(current_device)
                /\ enabled =>
                      /\ Appended /= <<>>
                      /\ Head(Appended).request = GetInfo(current_device')
                      /\ current_device' = NextAddr(wire.a)]_vars

\* ------------------------------------- further claims on the transport
\* C21: when the delay timer expires in state idle, or enable() starts
\* processing, and the link is not open, the transport becomes disabled,
\* writes nothing, leaves the queue as it is, calls no callback and raises
\* no error; a send_command in state disabled only appends to the queue,
\* and nothing is written from state disabled except by enable().
C21_ClosedLinkDisables ==
    [][/\ (TimerTimeout /\ transport_state = "idle" /\ ~port_open) =>
              /\ transport_state' = "disabled"
              /\ ~timer_active'
              /\ UNCHANGED <<command_queue, unsent_bytes, read_complete,
                             write_complete, pvars, dvars, gvars, err>>
       /\ (Enable /\ transport_state = "disabled" /\ ~port_open) =>
              /\ transport_state' = "disabled"
              /\ command_queue' = Append(command_queue, Command(Ping, "none"))
              /\ UNCHANGED <<unsent_bytes, read_complete, write_complete,
                             pvars, dvars, gvars, err>>
       /\ (SendCommand /\ transport_state = "disabled") =>
              /\ Len(command_queue') = Len(command_queue) + 1
              /\ SubSeq(command_queue', 1, Len(command_queue)) = command_queue
              /\ UNCHANGED <<transport_state, timer_active, unsent_bytes,
                             read_complete, write_complete, pvars, err>>
       /\ (transport_state = "disabled" /\ transport_state' /= "disabled") =>
              Enable]_vars
\* enable() found the link not open and the transport is disabled again,
\* its Ping and two commands submitted later waiting, nothing ever written
C21_Witness ==
    /\ transport_state = "disabled"
    /\ ~port_open
    /\ timer_active
    /\ Len(command_queue) = 3
    /\ Head(command_queue).request = Ping
    /\ command_queue[3].request = ClientCmd(2)
    /\ wire = NoRequest
    /\ tx_pending = 0

\* ------------------------------------------- the transport and the clock
\* what a handler's step does to the clock: start is whether it started the
\* delay timer, submit whether it was a send_command
ClockStep(start, submit) ==
    /\ timer_left' = (IF start THEN COMMAND_DELAY ELSE timer_left)
    /\ since_final' = (IF Finalized THEN 0 ELSE since_final)
    /\ since_submit' = (IF ~submit THEN since_submit
                        ELSE IF transport_state = "idle" THEN 0
                        ELSE COMMAND_DELAY)

TimedEnable ==
    /\ Running
    /\ CommandTransport_enable
    /\ UNCHANGED <<dvars, settings, submitted, batches, calls, gvars, ghist>>
    /\ ClockStep(transport_state = "disabled", FALSE)
    /\ ObserveTransport("enable")

TimedSend ==
    /\ Running
    /\ submitted < MaxCmds
    /\ send_commands(<<Command(ClientCmd(submitted + 1), "user")>>)
    /\ submitted' = submitted + 1
    /\ UNCHANGED <<transport_state, unsent_bytes, read_complete,
                   write_complete, pvars, dvars, settings, err, batches,
                   calls, gvars, ghist>>
    /\ ClockStep(transport_state = "idle", TRUE)
    /\ ObserveTransport("send_command")

\* the delay timer expires when its time is up
TimedTimeout == timer_left = 0 /\ TimerTimeout

TimedBytesWritten ==
    /\ Running
    /\ tx_pending > 0
    /\ tx_pending' = 0
    /\ handle_write(tx_pending)
    /\ UNCHANGED <<port_open, rx, wire, dvars, settings, submitted, batches,
                   calls, gvars, ghist>>
    /\ ClockStep(Finalized /\ command_queue' /= <<>>, FALSE)
    /\ ObserveTransport("handle_write")

\* the answer to the request on the link arrives, and the readyRead this
\* raises is served
TimedReadyRead ==
    /\ Running
    /\ port_open
    /\ transport_state = "work"
    /\ Len(rx) < MaxRx
    /\ \E line \in ClientLines : handle_read(Append(rx, line))
    /\ UNCHANGED <<port_open, tx_pending, wire, settings, submitted, batches,
                   calls, ghist>>
    /\ ClockStep(Finalized /\ command_queue' /= <<>>, FALSE)
    /\ ObserveTransport("handle_read")

\* time passes, by TimeStep at most and not beyond the expiry of the timer
Pass ==
    LET d == IF timer_active /\ timer_left < TimeStep THEN timer_left
             ELSE TimeStep
        Later(t) == IF t + d > COMMAND_DELAY THEN COMMAND_DELAY ELSE t + d
    IN /\ Running
       /\ d > 0
       /\ timer_left' = (IF timer_active THEN timer_left - d ELSE timer_left)
       /\ since_final' = Later(since_final)
       /\ since_submit' = Later(since_submit)
       /\ UNCHANGED <<tvars, pvars, dvars, gvars, settings, err, hvars, ghist>>

NextTimed ==
    \/ Open \/ TimedEnable \/ Disable \/ Clear \/ TimedSend
    \/ TimedTimeout \/ TimedBytesWritten \/ TimedReadyRead \/ Pass

SpecTimed == Init /\ [][NextTimed]_vars

\* C22: a command is written at least COMMAND_DELAY after the last
\* finalization, and a command that send_command took in state idle is
\* written at least COMMAND_DELAY after it was submitted.
C22_MinimumDelay ==
    [][Wrote =>
          /\ since_final >= COMMAND_DELAY
          /\ (wire' = ClientCmd(submitted)) =>
                since_submit >= COMMAND_DELAY]_vars

\* C23: the callback of a command is invoked at most once: a readyRead
\* that hands a line to the callback of the command in flight finds the
\* response to that command not yet read, also while the write-completion
\* is still awaited.
C23_CallbackOnce ==
    [][(/\ ReadLine
        /\ transport_state = "work"
        /\ command_queue /= <<>>
        /\ Head(command_queue).callback /= "none") =>
           ~read_complete]_vars

\* C24: _process_request never reads the head of an empty queue: when the
\* delay timer expires in state idle with the link open the queue is not
\* empty, and neither that step nor enable() raises an error.
C24_HeadExists ==
    [][/\ (TimedTimeout /\ transport_state = "idle" /\ port_open) =>
              command_queue /= <<>> /\ err' = "none"
       /\ TimedEnable => err' = "none"]_vars

\* C25: when a poll response is interpreted, the cursor is the address of
\* the GetInfo it answers: no response is interpreted while the cursor
\* differs from the address polled.
C25_CursorIsPolledAddress ==
    [][(current_device /= wire.a) =>
          \A line \in Replies(wire) : ~QueryReply(line)]_vars

\* only enable(), reset_game() and start_game() have taken effect so far,
\* so that a stop command in the queue was put there by a tick
OnlyStarted == gcalls = 3
StopWaiting ==
    \E i \in 1..Len(command_queue) : command_queue[i].callback = "stop"

\* C26: while a stop command queued by a tick awaits its acknowledgment, a
\* later tick queues no further stop command.
C26_OneStopPerRun ==
    [][(GameTick /\ OnlyStarted /\ StopWaiting) => Appended = <<>>]_vars

====
